---- MODULE Spec2Model ----
(***************************************************************************)
(* A model of the NBT reader of src/src/read.ts: the format driver read(), *)
(* the byte cursor NBTReader and its recursive-descent grammar decoder.    *)
(*                                                                         *)
(* Bytes are naturals 0..255.  JavaScript int32 values that take part in   *)
(* bit operations are bit vectors (LSB first, 32 wide); BigInt values are  *)
(* two's-complement bit vectors wide enough for every value the reader can *)
(* build.  Offsets and lengths are integers.                               *)
(***************************************************************************)
EXTENDS Integers, Sequences, FiniteSets, TLC

VARIABLES scenario, calls, cur, results, frames, pc, data, byteOffset,
          littleEndian, varint, stack, ret

vars == <<scenario, calls, cur, results, frames, pc, data, byteOffset,
          littleEndian, varint, stack, ret>>

(***************************************************************************)
(* Bounds of the model                                                     *)
(***************************************************************************)
MaxTrailing == 1
MaxVarBytes == 12
MaxMtime == 1

(***************************************************************************)
(* Program constants                                                       *)
(***************************************************************************)
PayloadMask == 127
ContinueBit == 128
MaxShift == 63
ShiftStep == 7
GzipMagic1 == 31
GzipMagic2 == 139
ZlibMagic == 120
BedrockHeaderLength == 8
ShiftMask == 31

IntW == ShiftMask + 1
BigW == MaxShift + ShiftStep + 2

TAG_END == 0
TAG_BYTE == 1
TAG_SHORT == 2
TAG_INT == 3
TAG_LONG == 4
TAG_FLOAT == 5
TAG_DOUBLE == 6
TAG_BYTE_ARRAY == 7
TAG_STRING == 8
TAG_LIST == 9
TAG_COMPOUND == 10
TAG_INT_ARRAY == 11
TAG_LONG_ARRAY == 12

isTagType(type) == type \in TAG_END..TAG_LONG_ARRAY

\* The element class of a packed numeric list, "null" for every other kind.
getAppropriateTypedArray(type) ==
  CASE type = TAG_BYTE -> "Int8Array"
    [] type = TAG_SHORT -> "Int16Array"
    [] type = TAG_INT -> "Int32Array"
    [] type = TAG_LONG -> "BigInt64Array"
    [] type = TAG_FLOAT -> "Float32Array"
    [] type = TAG_DOUBLE -> "Float64Array"
    [] OTHER -> "null"

(***************************************************************************)
(* Error kinds                                                             *)
(***************************************************************************)
OK == "none"
UnexpectedEndTagError == "UnexpectedEndTagError"
InvalidTagError == "InvalidTagError"
VarNumTooLargeError == "VarNumTooLargeError"
UnexpectedBufferEndError == "UnexpectedBufferEndError"
InvalidOpeningTagError == "InvalidOpeningTagError"
UnexpectedRootNameError == "UnexpectedRootNameError"
\* thrown by DataView accessors and typed-array constructors
RangeError == "RangeError"
\* thrown by the decompression collaborator
DecompressError == "DecompressError"

(***************************************************************************)
(* Bit vectors                                                             *)
(***************************************************************************)
RECURSIVE Pow2(_)
Pow2(k) == IF k = 0 THEN 1 ELSE 2 * Pow2(k - 1)

\* bit i (0-based) of a byte
BitOf(b, i) == IF i < 8 THEN (b \div Pow2(i)) % 2 ELSE 0

Zero(w) == [i \in 1..w |-> 0]
Ones(w) == [i \in 1..w |-> 1]

BvXor(a, b) == [i \in 1..Len(a) |-> (a[i] + b[i]) % 2]
BvOr(a, b) == [i \in 1..Len(a) |-> IF a[i] + b[i] > 0 THEN 1 ELSE 0]
BvAnd(a, b) == [i \in 1..Len(a) |-> a[i] * b[i]]

\* JavaScript <<  on int32: the shift count is taken modulo 32
Shl32(v, k) ==
  LET s == k % IntW
  IN [i \in 1..IntW |-> IF i - s >= 1 THEN v[i - s] ELSE 0]

\* JavaScript >>  on int32: arithmetic, the shift count is taken modulo 32
Sar32(v, k) ==
  LET s == k % IntW
  IN [i \in 1..IntW |-> IF i + s <= IntW THEN v[i + s] ELSE v[IntW]]

\* (byte & 0x7F) as an int32
Payload32(b) == [i \in 1..IntW |-> BitOf(b % (PayloadMask + 1), i - 1)]

\* the int32 a 32-bit vector stands for
RECURSIVE BvSum(_, _)
BvSum(v, k) == IF k = 0 THEN 0 ELSE v[k] * Pow2(k - 1) + BvSum(v, k - 1)

ToInt32(v) ==
  LET low == BvSum(v, IntW - 1)
      half == Pow2(IntW - 2)
  IN IF v[IntW] = 1 THEN (low - half) - half ELSE low

\* BigInt << : no wrap, the value only grows
ShlBig(v, k) == [i \in 1..BigW |-> IF i - k >= 1 THEN v[i - k] ELSE 0]

\* BigInt >> 1n
SarBig(v, k) == [i \in 1..BigW |-> IF i + k <= BigW THEN v[i + k] ELSE v[BigW]]

\* BigInt(byte) & 0x7Fn
PayloadBig(b) == [i \in 1..BigW |-> BitOf(b % (PayloadMask + 1), i - 1)]

\* -(x & 1n)
NegLowBitBig(v) == IF v[1] = 1 THEN Ones(BigW) ELSE Zero(BigW)

\* BigInt.asIntN(64, x): what storing into a BigInt64Array keeps
AsInt64(v) == [i \in 1..BigW |-> IF i <= 64 THEN v[i] ELSE v[64]]

(***************************************************************************)
(* Byte cursor (class NBTReader).  A reader R is the record                *)
(* [data, off, le, varint]; a read returns [err, off, n, b]: the error     *)
(* kind (OK when none), the offset after the read, the number read and,    *)
(* for values that do not fit an integer, their bytes or bits.             *)
(***************************************************************************)
Reader(d, off, le, vi) == [data |-> d, off |-> off, le |-> le, varint |-> vi]
At(R, off) == [R EXCEPT !.off = off]
Res(err, off, n, b) == [err |-> err, off |-> off, n |-> n, b |-> b]

Reverse(s) == [i \in 1..Len(s) |-> s[Len(s) + 1 - i]]

\* #allocate: throws when byteOffset + byteLength > data.byteLength
Allocate(R, byteLength) ==
  IF R.off < 0
    THEN IF R.off + byteLength > Len(R.data) THEN UnexpectedBufferEndError ELSE OK
    ELSE IF byteLength > Len(R.data) - R.off THEN UnexpectedBufferEndError ELSE OK

\* #allocate(w), then a DataView access of w bytes at byteOffset (a
\* RangeError below offset 0) and byteOffset += w; b holds the bytes in
\* big-endian order
Fixed(R, w, swap) ==
  IF Allocate(R, w) # OK THEN Res(UnexpectedBufferEndError, R.off, 0, <<>>)
  ELSE IF R.off < 0 THEN Res(RangeError, R.off, 0, <<>>)
  ELSE Res(OK, R.off + w, 0,
           IF swap THEN Reverse(SubSeq(R.data, R.off + 1, R.off + w))
           ELSE SubSeq(R.data, R.off + 1, R.off + w))

Unsigned8(bs) == bs[1]
Signed8(bs) == IF bs[1] >= 128 THEN bs[1] - 256 ELSE bs[1]
Unsigned16(bs) == bs[1] * 256 + bs[2]
Signed16(bs) == Signed8(bs) * 256 + bs[2]
Signed32(bs) == Signed8(bs) * 16777216 + bs[2] * 65536 + bs[3] * 256 + bs[4]

\* the two's-complement bits of a big-endian 64-bit integer, as a BigInt
Signed64(bs) ==
  [i \in 1..BigW |->
     IF i <= 64 THEN BitOf(bs[8 - ((i - 1) \div 8)], (i - 1) % 8)
     ELSE BitOf(bs[1], 7)]

\* IEEE-754 values: every NaN bit pattern reads as the one NaN
Float32(bs) ==
  IF (bs[1] % 128) = 127 /\ bs[2] >= 128 /\ (bs[2] % 128) + bs[3] + bs[4] > 0
    THEN <<127, 192, 0, 0>> ELSE bs

Float64(bs) ==
  IF (bs[1] % 128) = 127 /\ bs[2] >= 240
     /\ (bs[2] % 16) + bs[3] + bs[4] + bs[5] + bs[6] + bs[7] + bs[8] > 0
    THEN <<127, 248, 0, 0, 0, 0, 0, 0>> ELSE bs

\* the DataView accessors: the number, or the bits, made of the bytes read

ReadUnsignedByte(R) ==
  LET Go(r) == IF r.err = OK THEN [r EXCEPT !.n = Unsigned8(r.b)] ELSE r
  IN Go(Fixed(R, 1, FALSE))
ReadByte(R) ==
  LET Go(r) == IF r.err = OK THEN [r EXCEPT !.n = Signed8(r.b)] ELSE r
  IN Go(Fixed(R, 1, FALSE))
ReadUnsignedShort(R) ==
  LET Go(r) == IF r.err = OK THEN [r EXCEPT !.n = Unsigned16(r.b)] ELSE r
  IN Go(Fixed(R, 2, R.le))
ReadShort(R) ==
  LET Go(r) == IF r.err = OK THEN [r EXCEPT !.n = Signed16(r.b)] ELSE r
  IN Go(Fixed(R, 2, R.le))
\* the value of the two header words is never used
ReadUnsignedInt(R) == Fixed(R, 4, R.le)
ReadInt(R) ==
  LET Go(r) == IF r.err = OK THEN [r EXCEPT !.n = Signed32(r.b)] ELSE r
  IN Go(Fixed(R, 4, R.le))
ReadLong(R) ==
  LET Go(r) == IF r.err = OK THEN [r EXCEPT !.b = Signed64(r.b)] ELSE r
  IN Go(Fixed(R, 8, R.le))
ReadFloat(R) ==
  LET Go(r) == IF r.err = OK THEN [r EXCEPT !.b = Float32(r.b)] ELSE r
  IN Go(Fixed(R, 4, R.le))
ReadDouble(R) ==
  LET Go(r) == IF r.err = OK THEN [r EXCEPT !.b = Float64(r.b)] ELSE r
  IN Go(Fixed(R, 8, R.le))

\* #readTagType
ReadTagType(R) ==
  LET Go(r) == IF r.err # OK THEN r
               ELSE IF ~isTagType(r.n) THEN Res(InvalidTagError, r.off, r.n, <<>>)
               ELSE r
  IN Go(ReadUnsignedByte(R))

\* #readVarInt: the loop has no bound on shift; value is an int32
RECURSIVE VarIntLoop(_, _, _)
VarIntLoop(R, value, shift) ==
  LET Acc(r, v) == IF r.b[1] < ContinueBit THEN Res(OK, r.off, ToInt32(v), v)
                   ELSE VarIntLoop(At(R, r.off), v, shift + ShiftStep)
      Go(r) == IF r.err # OK THEN r
               ELSE Acc(r, BvOr(value, Shl32(Payload32(r.b[1]), shift)))
  IN Go(ReadByte(R))

ReadVarInt(R) == VarIntLoop(R, Zero(IntW), 0)

\* the last line of #readVarIntZigZag without its last term
ZigZag32NoSignBit(result) ==
  Sar32(BvXor(Sar32(Shl32(result, MaxShift), MaxShift), result), 1)

\* the last line of #readVarIntZigZag:
\* ((((result << 63) >> 63) ^ result) >> 1) ^ (result & (1 << 63))
ZigZag32(result) ==
  BvXor(Sar32(BvXor(Sar32(Shl32(result, MaxShift), MaxShift), result), 1),
        BvAnd(result, Shl32(Payload32(1), MaxShift)))

IntResult(off, z) == Res(OK, off, ToInt32(z), z)

\* #readVarIntZigZag
RECURSIVE VarIntZigZagLoop(_, _, _)
VarIntZigZagLoop(R, result, shift) ==
  LET Acc(r, v) == IF r.b[1] < ContinueBit THEN IntResult(r.off, ZigZag32(v))
                   ELSE IF shift + ShiftStep > MaxShift
                     THEN Res(VarNumTooLargeError, r.off, 0, <<>>)
                   ELSE VarIntZigZagLoop(At(R, r.off), v, shift + ShiftStep)
      Go(r) == IF r.err # OK THEN r
               ELSE Acc(r, BvOr(result, Shl32(Payload32(r.b[1]), shift)))
  IN Go(ReadByte(R))

ReadVarIntZigZag(R) == VarIntZigZagLoop(R, Zero(IntW), 0)

\* the last line of #readVarLongZigZag: (result >> 1n) ^ -(result & 1n)
ZigZagBig(result) == BvXor(SarBig(result, 1), NegLowBitBig(result))

\* #readVarLongZigZag
RECURSIVE VarLongZigZagLoop(_, _, _)
VarLongZigZagLoop(R, result, shift) ==
  LET Acc(r, v) == IF r.b[1] < ContinueBit THEN Res(OK, r.off, 0, ZigZagBig(v))
                   ELSE IF shift + ShiftStep > MaxShift
                     THEN Res(VarNumTooLargeError, r.off, 0, <<>>)
                   ELSE VarLongZigZagLoop(At(R, r.off), v, shift + ShiftStep)
      Go(r) == IF r.err # OK THEN r
               ELSE Acc(r, BvOr(result, ShlBig(PayloadBig(r.b[1]), shift)))
  IN Go(ReadByte(R))

ReadVarLongZigZag(R) == VarLongZigZagLoop(R, Zero(BigW), 0)

(***************************************************************************)
(* Tag values.  Every value is a record [t, n, b, c]: its JavaScript type, *)
(* its number when it is an integer, its bits or bytes when it is a BigInt,*)
(* a float or a string, and its entries [k, v] when it is a typed array,   *)
(* an Array or an object.                                                  *)
(***************************************************************************)
Val(t, n, b, c) == [t |-> t, n |-> n, b |-> b, c |-> c]
Entry(k, v) == [k |-> k, v |-> v]
NoVal == Val("undefined", 0, <<>>, <<>>)
Number(n) == Val("number", n, <<>>, <<>>)

\* The Modified UTF-8 collaborator: one- and two-byte forms decode to their
\* code unit, any other byte to U+FFFD.
RECURSIVE Mutf8Decode(_)
Mutf8Decode(bs) ==
  IF bs = <<>> THEN <<>>
  ELSE IF bs[1] < 128 THEN <<bs[1]>> \o Mutf8Decode(Tail(bs))
  ELSE IF bs[1] \in 192..223 /\ Len(bs) >= 2 /\ bs[2] \in 128..191
    THEN <<(bs[1] % 32) * 64 + (bs[2] % 64)>> \o Mutf8Decode(Tail(Tail(bs)))
  ELSE <<65533>> \o Mutf8Decode(Tail(bs))

\* TypedArray.prototype.subarray(begin, end): negative indices count from
\* the end, both are clamped, an inverted range is empty
Relative(x, len) ==
  IF x < 0 THEN (IF len + x > 0 THEN len + x ELSE 0)
  ELSE (IF x < len THEN x ELSE len)

Subarray(d, begin, end) == SubSeq(d, Relative(begin, Len(d)) + 1, Relative(end, Len(d)))

\* #readString
ReadString(R) ==
  LET Go(length) ==
        IF length.err # OK THEN length
        ELSE IF Allocate(At(R, length.off), length.n) # OK
          THEN Res(UnexpectedBufferEndError, length.off, 0, <<>>)
        ELSE Res(OK, length.off + length.n, 0,
                 Mutf8Decode(Subarray(R.data, length.off, length.off + length.n)))
  IN Go(IF R.varint THEN ReadVarInt(R) ELSE ReadUnsignedShort(R))

\* the length prefix of arrays and lists
ReadLength(R) == IF R.varint THEN ReadVarIntZigZag(R) ELSE ReadInt(R)

\* the result of reading a whole tag: [err, off, val]
Got(err, off, val) == [err |-> err, off |-> off, val |-> val]

\* new Int8Array(bytes)
Int8Array(bytes) ==
  Val("Int8Array", 0, <<>>,
      [i \in 1..Len(bytes) |-> Entry(<<>>, Number(Signed8(<<bytes[i]>>)))])

\* #readByteArray after its length prefix
ByteArrayOf(R, length) ==
  IF length.err # OK THEN Got(length.err, length.off, NoVal)
  ELSE IF Allocate(At(R, length.off), length.n) # OK
    THEN Got(UnexpectedBufferEndError, length.off, NoVal)
  ELSE Got(OK, length.off + length.n,
           Int8Array(Subarray(R.data, length.off, length.off + length.n)))

\* #readByteArray
ReadByteArray(R) == ByteArrayOf(R, ReadLength(R))

NumberGot(r) == Got(r.err, r.off, Number(r.n))
BitsGot(r, t) == Got(r.err, r.off, Val(t, 0, r.b, <<>>))

\* the scalar cases of #readTag
ReadScalar(R, type) ==
  CASE type = TAG_BYTE -> NumberGot(ReadByte(R))
    [] type = TAG_SHORT -> NumberGot(ReadShort(R))
    [] type = TAG_INT -> NumberGot(IF R.varint THEN ReadVarIntZigZag(R) ELSE ReadInt(R))
    [] type = TAG_LONG -> BitsGot(IF R.varint THEN ReadVarLongZigZag(R) ELSE ReadLong(R),
                                  "bigint")
    [] type = TAG_FLOAT -> BitsGot(ReadFloat(R), "float32")
    [] type = TAG_DOUBLE -> BitsGot(ReadDouble(R), "float64")

\* value[i] = entry on a typed array: a BigInt64Array keeps 64 bits
Store(class, val) ==
  IF class = "BigInt64Array" THEN [val EXCEPT !.b = AsInt64(val.b)] ELSE val

\* the element loop of a packed list or of an int/long array: k elements
\* from R, read with #readInt / #readLong when fixed and with #readTag(type)
\* otherwise
RECURSIVE ReadElements(_, _, _, _, _, _)
ReadElements(R, class, type, fixed, k, acc) ==
  LET Go(e) == IF e.err # OK THEN Got(e.err, e.off, NoVal)
               ELSE ReadElements(At(R, e.off), class, type, fixed, k - 1,
                                 Append(acc, Entry(<<>>, Store(class, e.val))))
  IN IF k = 0 THEN Got(OK, R.off, Val(class, 0, <<>>, acc))
     ELSE Go(ReadScalar(IF fixed THEN [R EXCEPT !.varint = FALSE] ELSE R, type))

\* new Int32Array(length) and its siblings throw on a negative length
NewTypedArray(R, class, type, fixed, length) ==
  IF length.err # OK THEN Got(length.err, length.off, NoVal)
  ELSE IF length.n < 0 THEN Got(RangeError, length.off, NoVal)
  ELSE ReadElements(At(R, length.off), class, type, fixed, length.n, <<>>)

\* #readIntArray
ReadIntArray(R) == NewTypedArray(R, "Int32Array", TAG_INT, TRUE, ReadLength(R))

\* #readLongArray
ReadLongArray(R) == NewTypedArray(R, "BigInt64Array", TAG_LONG, TRUE, ReadLength(R))

(***************************************************************************)
(* Objects: value[name] = entry on a plain object {}                       *)
(***************************************************************************)
\* "4294967294", the largest array index
MaxIndexDigits == <<52, 50, 57, 52, 57, 54, 55, 50, 57, 52>>
\* "__proto__"
ProtoKey == <<95, 95, 112, 114, 111, 116, 111, 95, 95>>

RECURSIVE LexLeq(_, _)
LexLeq(a, b) ==
  IF a = <<>> THEN TRUE
  ELSE IF a[1] # b[1] THEN a[1] < b[1]
  ELSE LexLeq(Tail(a), Tail(b))

\* a key that is the canonical decimal form of an integer below 2^32 - 1
IsArrayIndex(name) ==
  /\ Len(name) >= 1
  /\ \A i \in 1..Len(name) : name[i] \in 48..57
  /\ (Len(name) > 1 => name[1] # 48)
  /\ \/ Len(name) < Len(MaxIndexDigits)
     \/ Len(name) = Len(MaxIndexDigits) /\ LexLeq(name, MaxIndexDigits)

IndexLess(a, b) == Len(a) < Len(b) \/ (Len(a) = Len(b) /\ a # b /\ LexLeq(a, b))

HasKey(value, name) == \E i \in 1..Len(value) : value[i].k = name

\* Own keys are kept in the order the language enumerates them: array
\* indices first, ascending, then the other names in creation order.  An
\* assignment to __proto__ runs the inherited setter and creates no key.
ObjectSet(value, name, entry) ==
  IF name = ProtoKey THEN value
  ELSE IF HasKey(value, name)
    THEN [i \in 1..Len(value) |->
            IF value[i].k = name THEN Entry(name, entry) ELSE value[i]]
  ELSE IF IsArrayIndex(name)
    THEN LET before == {i \in 1..Len(value) :
                          IsArrayIndex(value[i].k) /\ IndexLess(value[i].k, name)}
             p == Cardinality(before)
         IN SubSeq(value, 1, p) \o <<Entry(name, entry)>>
            \o SubSeq(value, p + 1, Len(value))
  ELSE Append(value, Entry(name, entry))

(***************************************************************************)
(* Grammar decoder.  The recursion of #readTag through #readList and       *)
(* #readCompound is an explicit stack of frames, one per open list or      *)
(* compound: [kind, type, length, value, name].                            *)
(***************************************************************************)
Frame(kind, type, length) ==
  [kind |-> kind, type |-> type, length |-> length, value |-> <<>>, name |-> <<>>]
NoFrame == Frame("none", 0, 0)

\* what #readTag(type) does before its first nested #readTag: either the
\* whole tag is read (done) or a list or compound is opened (frame)
Begun(err, off, done, val, frame) ==
  [err |-> err, off |-> off, done |-> done, val |-> val, frame |-> frame]
Whole(g) == Begun(g.err, g.off, TRUE, g.val, NoFrame)

\* #readList up to its element loop: a packed list is read whole; the loop
\* over other elements does not run for a length <= 0
BeginList(R) ==
  LET Elements(type, length) ==
        IF getAppropriateTypedArray(type.n) # "null"
          THEN Whole(NewTypedArray(At(R, type.off), getAppropriateTypedArray(type.n),
                                   type.n, FALSE, length))
        ELSE IF length.err # OK THEN Begun(length.err, length.off, TRUE, NoVal, NoFrame)
        ELSE IF length.n <= 0
          THEN Begun(OK, length.off, TRUE, Val("Array", 0, <<>>, <<>>), NoFrame)
        ELSE Begun(OK, length.off, FALSE, NoVal, Frame("list", type.n, length.n))
      Go(type) == IF type.err # OK THEN Begun(type.err, type.off, TRUE, NoVal, NoFrame)
                  ELSE Elements(type, ReadLength(At(R, type.off)))
  IN Go(ReadTagType(R))

StringGot(r) == Begun(r.err, r.off, TRUE, Val("string", 0, r.b, <<>>), NoFrame)

\* #readTag with the END case left to the default case
BeginTagEndByDefault(R, type) ==
  CASE type \in TAG_BYTE..TAG_DOUBLE -> Whole(ReadScalar(R, type))
    [] type = TAG_BYTE_ARRAY -> Whole(ReadByteArray(R))
    [] type = TAG_STRING -> StringGot(ReadString(R))
    [] type = TAG_LIST -> BeginList(R)
    [] type = TAG_COMPOUND -> Begun(OK, R.off, FALSE, NoVal, Frame("compound", 0, 0))
    [] type = TAG_INT_ARRAY -> Whole(ReadIntArray(R))
    [] type = TAG_LONG_ARRAY -> Whole(ReadLongArray(R))
    [] OTHER -> Begun(InvalidTagError, R.off, TRUE, NoVal, NoFrame)

\* #readTag
BeginTag(R, type) ==
  CASE type = TAG_END -> Begun(UnexpectedEndTagError, R.off, TRUE, NoVal, NoFrame)
    [] type \in TAG_BYTE..TAG_DOUBLE -> Whole(ReadScalar(R, type))
    [] type = TAG_BYTE_ARRAY -> Whole(ReadByteArray(R))
    [] type = TAG_STRING -> StringGot(ReadString(R))
    [] type = TAG_LIST -> BeginList(R)
    [] type = TAG_COMPOUND -> Begun(OK, R.off, FALSE, NoVal, Frame("compound", 0, 0))
    [] type = TAG_INT_ARRAY -> Whole(ReadIntArray(R))
    [] type = TAG_LONG_ARRAY -> Whole(ReadLongArray(R))
    [] OTHER -> Begun(InvalidTagError, R.off, TRUE, NoVal, NoFrame)

Top(stk) == stk[Len(stk)]
Rest(stk) == SubSeq(stk, 1, Len(stk) - 1)
Open(stk) == [stack |-> stk, done |-> FALSE, root |-> NoVal]

\* a finished tag returns to the loop that asked for it: value[name] = entry
\* in a compound, value.push(entry) in a list, which returns in its turn
\* once i reaches length; with no open frame the tag is the root
RECURSIVE Deliver(_, _)
Deliver(stk, val) ==
  LET Push(top, rest, pushed) ==
        IF Len(pushed) >= top.length THEN Deliver(rest, Val("Array", 0, <<>>, pushed))
        ELSE Open(Append(rest, [top EXCEPT !.value = pushed]))
      To(top, rest) ==
        IF top.kind = "compound"
          THEN Open(Append(rest, [top EXCEPT !.value = ObjectSet(top.value, top.name, val)]))
        ELSE Push(top, rest, Append(top.value, Entry(<<>>, val)))
  IN IF stk = <<>> THEN [stack |-> <<>>, done |-> TRUE, root |-> val]
     ELSE To(Top(stk), Rest(stk))

\* the outcome of one decoder step: [err, off, stack, done, root]
Stepped(err, off, d) ==
  [err |-> err, off |-> off, stack |-> d.stack, done |-> d.done, root |-> d.root]
Failed(err, off) == Stepped(err, off, Open(<<>>))

\* a tag of the given kind is read at R for the innermost open frame
ReadInto(R, stk, type) ==
  LET Go(t) == IF t.err # OK THEN Failed(t.err, t.off)
               ELSE IF t.done THEN Stepped(OK, t.off, Deliver(stk, t.val))
               ELSE Stepped(OK, t.off, Open(Append(stk, t.frame)))
  IN Go(BeginTag(R, type))

\* one iteration of the loop of #readCompound
CompoundStep(R, stk) ==
  LET Named(type, name) ==
        IF name.err # OK THEN Failed(name.err, name.off)
        ELSE ReadInto(At(R, name.off),
                      Append(Rest(stk), [Top(stk) EXCEPT !.name = name.b]), type.n)
      Go(type) ==
        IF type.err # OK THEN Failed(type.err, type.off)
        ELSE IF type.n = TAG_END
          THEN Stepped(OK, type.off,
                       Deliver(Rest(stk), Val("Object", 0, <<>>, Top(stk).value)))
        ELSE Named(type, ReadString(At(R, type.off)))
  IN Go(ReadTagType(R))

\* one iteration of the loop of #readList over elements that are not numbers
ListStep(R, stk) == ReadInto(R, stk, Top(stk).type)

\* one iteration of the innermost open loop of the grammar decoder
DecodeStep(R, stk) ==
  IF Top(stk).kind = "compound" THEN CompoundStep(R, stk) ELSE ListStep(R, stk)

(***************************************************************************)
(* The decompression collaborator decompress(bytes, scheme).  A deflate    *)
(* stream is one stored block; gzip and zlib wrap it in their header and   *)
(* trailer.  The 32-bit check of both trailers is the Adler-32 sum.        *)
(***************************************************************************)
RECURSIVE Adler(_, _, _)
Adler(bs, s1, s2) ==
  IF bs = <<>> THEN <<s2 \div 256, s2 % 256, s1 \div 256, s1 % 256>>
  ELSE Adler(Tail(bs), (s1 + bs[1]) % 65521, (s2 + s1 + bs[1]) % 65521)

Check32(bs) == Adler(bs, 1, 0)

Deflate(X) ==
  <<1, Len(X) % 256, Len(X) \div 256, 255 - (Len(X) % 256), 255 - (Len(X) \div 256)>> \o X

Inflated(err, d) == [err |-> err, data |-> d]

Inflate(bs) ==
  IF /\ Len(bs) >= 5
     /\ bs[1] = 1
     /\ bs[4] = 255 - bs[2]
     /\ bs[5] = 255 - bs[3]
     /\ Len(bs) = 5 + bs[2] + 256 * bs[3]
    THEN Inflated(OK, SubSeq(bs, 6, Len(bs)))
    ELSE Inflated(DecompressError, <<>>)

\* gzip member: ID1 ID2 CM FLG MTIME(4) XFL OS, deflate stream, check, ISIZE
Gzip(X, mtime) ==
  <<GzipMagic1, GzipMagic2, 8, 0, mtime, 0, 0, 0, 0, 255>> \o Deflate(X)
    \o Check32(X) \o <<Len(X) % 256, Len(X) \div 256, 0, 0>>

Gunzip(bs) ==
  LET Go(body) ==
        IF /\ body.err = OK
           /\ SubSeq(bs, 1, 4) = <<GzipMagic1, GzipMagic2, 8, 0>>
           /\ SubSeq(bs, Len(bs) - 7, Len(bs))
                = Check32(body.data) \o <<Len(body.data) % 256, Len(body.data) \div 256, 0, 0>>
          THEN body ELSE Inflated(DecompressError, <<>>)
  IN IF Len(bs) < 18 THEN Inflated(DecompressError, <<>>)
     ELSE Go(Inflate(SubSeq(bs, 11, Len(bs) - 8)))

\* zlib stream: CMF FLG, deflate stream, check
Zlib(X) == <<ZlibMagic, 156>> \o Deflate(X) \o Check32(X)

Unzlib(bs) ==
  LET Go(body) ==
        IF /\ body.err = OK
           /\ SubSeq(bs, 1, 2) = <<ZlibMagic, 156>>
           /\ SubSeq(bs, Len(bs) - 3, Len(bs)) = Check32(body.data)
          THEN body ELSE Inflated(DecompressError, <<>>)
  IN IF Len(bs) < 6 THEN Inflated(DecompressError, <<>>)
     ELSE Go(Inflate(SubSeq(bs, 3, Len(bs) - 4)))

Decompress(bs, scheme) ==
  CASE scheme = "gzip" -> Gunzip(bs)
    [] scheme = "deflate" -> Unzlib(bs)
    [] scheme = "deflate-raw" -> Inflate(bs)

(***************************************************************************)
(* Header peeks of the reader                                              *)
(***************************************************************************)
\* DataView.getUint16(0) throws a RangeError on a view shorter than 2 bytes
HasGzipHeader(d) ==
  IF Len(d) < 2 THEN RangeError
  ELSE IF d[1] = GzipMagic1 /\ d[2] = GzipMagic2 THEN "true" ELSE "false"

\* only reached when hasGzipHeader() returned
HasZlibHeader(d) == d[1] = ZlibMagic

\* the little-endian word at offset 4 equals byteLength - 8; a word with its
\* top bit set is larger than any length
HasBedrockLevelHeader(d, endian) ==
  IF endian # "little" \/ Len(d) < BedrockHeaderLength THEN FALSE
  ELSE /\ d[8] < 128
       /\ d[5] + 256 * d[6] + 65536 * d[7] + 16777216 * d[8]
            = Len(d) - BedrockHeaderLength

(***************************************************************************)
(* Options and results of read()                                           *)
(***************************************************************************)
\* rootName is "undefined", "true", "false", "null" or "string" (then
\* rootNameStr holds it); strict is "undefined", "true" or "false"
Options(rootName, rootNameStr, endian, compression, bedrockLevel, strict) ==
  [rootName |-> rootName, rootNameStr |-> rootNameStr, endian |-> endian,
   compression |-> compression, bedrockLevel |-> bedrockLevel, strict |-> strict]

NoOptions == Options("undefined", <<>>, "undefined", "undefined", "undefined", "undefined")

CompressionCandidates == <<"null", "deflate-raw">>
EndianCandidates == <<"big", "little", "little-varint">>
RootNameCandidates == <<"true", "false">>

Candidates(axis) ==
  CASE axis = "compression" -> CompressionCandidates
    [] axis = "endian" -> EndianCandidates
    [] axis = "rootName" -> RootNameCandidates

\* { ...options, axis: candidate }
WithCandidate(o, axis, c) ==
  CASE axis = "compression" -> [o EXCEPT !.compression = c]
    [] axis = "endian" -> [o EXCEPT !.endian = c]
    [] axis = "rootName" -> [o EXCEPT !.rootName = c]

\* an NBTData result or a thrown error, with the framing of the invocation
\* that produced it; offset and length are the cursor and the decoded buffer
\* when readRoot ended
NoOutcome ==
  [status |-> "none", error |-> OK, root |-> NoVal,
   rootNameNull |-> TRUE, rootName |-> <<>>, endian |-> "undefined",
   compression |-> "undefined", bedrockLevel |-> FALSE,
   hasByteOffset |-> FALSE, byteOffset |-> 0, offset |-> 0, length |-> 0,
   hint |-> NoOptions]

\* one invocation of read(): its options, the axis and candidate of the
\* re-entrant call it awaits, the error of its first candidate, and the
\* framing it resolved
Invocation(o) ==
  [options |-> o, trying |-> "none", idx |-> 0, error |-> NoOutcome,
   compression |-> o.compression, bedrockLevel |-> FALSE, rootNameNull |-> TRUE,
   rootNameV |-> <<>>]

Outcome(status, error, root, f, hasOffset, off, len) ==
  [status |-> status, error |-> error, root |-> root,
   rootNameNull |-> f.rootNameNull, rootName |-> f.rootNameV,
   endian |-> f.options.endian, compression |-> f.compression,
   bedrockLevel |-> f.bedrockLevel,
   hasByteOffset |-> hasOffset, byteOffset |-> IF hasOffset THEN off ELSE 0,
   offset |-> off, length |-> len, hint |-> f.options]

Thrown(error, f, off, len) == Outcome("error", error, NoVal, f, FALSE, off, len)

(***************************************************************************)
(* The format driver read() and readRoot, as steps of the current call     *)
(***************************************************************************)
TopFrame == frames[Len(frames)]
SetTop(f) == [frames EXCEPT ![Len(frames)] = f]
Input == calls[cur].data
Strict(o) == o.strict # "false"

\* the compression this invocation goes on with: the hint, else what the
\* header peeks say, "undefined" when they say nothing
Sniff(o, d) ==
  IF o.compression # "undefined" THEN o.compression
  ELSE IF HasGzipHeader(d) = RangeError THEN RangeError
  ELSE IF HasGzipHeader(d) = "true" THEN "gzip"
  ELSE IF HasZlibHeader(d) THEN "deflate"
  ELSE "undefined"

\* the first axis, in the order of read(), that this invocation has to try
Unresolved(o, compression) ==
  IF compression = "undefined" THEN "compression"
  ELSE IF o.endian = "undefined" THEN "endian"
  ELSE IF o.rootName = "undefined" THEN "rootName"
  ELSE "none"

\* decompress(data, compression), the data itself when there is none
Decompressed(d, compression) ==
  IF compression # "null" THEN Decompress(d, compression) ELSE Inflated(OK, d)

\* the bedrockLevel option, or what the header peek says
BedrockLevel(o, d) ==
  IF o.bedrockLevel = "undefined" THEN HasBedrockLevelHeader(d, o.endian)
  ELSE o.bedrockLevel = "true"

\* a call of the harness enters read()
Call ==
  /\ pc = "idle"
  /\ cur <= Len(calls)
  /\ frames' = <<Invocation(calls[cur].options)>>
  /\ pc' = "read"
  /\ UNCHANGED <<scenario, calls, cur, results, data, byteOffset, littleEndian,
                 varint, stack, ret>>

\* read() from its entry to its first re-entrant call, or to readRoot
Read ==
  /\ pc = "read"
  /\ LET Leaf(f, compression, dec) ==
           IF dec.err # OK
             THEN /\ pc' = "throw"
                  /\ ret' = Thrown(dec.err, [f EXCEPT !.compression = compression],
                                   0, Len(Input))
                  /\ frames' = frames
           ELSE /\ pc' = "root"
                /\ ret' = NoOutcome
                /\ frames' = SetTop([f EXCEPT !.compression = compression,
                                              !.bedrockLevel = BedrockLevel(f.options, Input)])
         Enter(f, compression, axis) ==
           IF compression = RangeError
             THEN /\ pc' = "throw"
                  /\ ret' = Thrown(RangeError, f, 0, Len(Input))
                  /\ frames' = frames
           ELSE IF axis # "none"
             THEN /\ pc' = "read"
                  /\ ret' = NoOutcome
                  /\ frames' = Append(SetTop([f EXCEPT !.trying = axis, !.idx = 1]),
                                      Invocation(WithCandidate(f.options, axis,
                                                               Candidates(axis)[1])))
           ELSE Leaf(f, compression, Decompressed(Input, compression))
         Sniffed(f, compression) ==
           Enter(f, compression, Unresolved(f.options, compression))
         Go(f) ==
           /\ data' = Input
           /\ byteOffset' = 0
           /\ littleEndian' = (f.options.endian # "big")
           /\ varint' = (f.options.endian = "little-varint")
           /\ stack' = <<>>
           /\ Sniffed(f, Sniff(f.options, Input))
     IN Go(TopFrame)
  /\ UNCHANGED <<scenario, calls, cur, results>>

\* the catch clauses of read(): the error of the first candidate is kept,
\* the next candidate is entered, and after the last one the kept error is
\* thrown
Catch ==
  /\ pc = "throw"
  /\ Len(frames) >= 2
  /\ LET Go(parent, base, cands, first) ==
           IF parent.idx < Len(cands)
             THEN /\ pc' = "read"
                  /\ ret' = NoOutcome
                  /\ frames' = base \o
                       << [parent EXCEPT !.idx = parent.idx + 1, !.error = first],
                          Invocation(WithCandidate(parent.options, parent.trying,
                                                   cands[parent.idx + 1])) >>
             ELSE /\ pc' = "throw"
                  /\ ret' = first
                  /\ frames' = Append(base, [parent EXCEPT !.error = first])
         Of(parent) ==
           Go(parent, SubSeq(frames, 1, Len(frames) - 2), Candidates(parent.trying),
              IF parent.idx = 1 THEN ret ELSE parent.error)
     IN Of(frames[Len(frames) - 1])
  /\ UNCHANGED <<scenario, calls, cur, results, data, byteOffset, littleEndian,
                 varint, stack>>

\* the call ends: a result returns through every awaiting invocation, an
\* error leaves the outermost one
Settle ==
  /\ \/ pc = "return"
     \/ pc = "throw" /\ Len(frames) = 1
  /\ results' = Append(results, ret)
  /\ cur' = cur + 1
  /\ frames' = <<>>
  /\ stack' = <<>>
  /\ pc' = "idle"
  /\ ret' = NoOutcome
  /\ UNCHANGED <<scenario, calls, data, byteOffset, littleEndian, varint>>

Started(err, off, null, name, tag) ==
  [err |-> err, off |-> off, null |-> null, name |-> name, tag |-> tag]
NotStarted(err, off) == Started(err, off, TRUE, <<>>, Begun(err, off, TRUE, NoVal, NoFrame))

\* the two words of the level header are skipped
SkipHeader(R, bedrockLevel) ==
  LET Second(h) == IF h.err # OK THEN h ELSE ReadUnsignedInt(At(R, h.off))
  IN IF bedrockLevel THEN Second(ReadUnsignedInt(R)) ELSE Res(OK, R.off, 0, <<>>)

\* readRoot from the level header to the first nested #readTag:
\* [err, off, null, name, tag]
RootStart(o, bedrockLevel, R) ==
  LET named == o.rootName \in {"string", "true"}
      Body(name, tag) ==
        IF tag.err # OK THEN NotStarted(tag.err, tag.off)
        ELSE Started(OK, tag.off, ~named, name.b, tag)
      Named(type, name) ==
        IF name.err # OK THEN NotStarted(name.err, name.off)
        ELSE IF o.rootName = "string" /\ name.b # o.rootNameStr
          THEN NotStarted(UnexpectedRootNameError, name.off)
        ELSE Body(name, BeginTag(At(R, name.off), type.n))
      Opened(type) ==
        IF type.err # OK THEN NotStarted(type.err, type.off)
        ELSE IF type.n # TAG_LIST /\ type.n # TAG_COMPOUND
          THEN NotStarted(InvalidOpeningTagError, type.off)
        ELSE Named(type, IF named THEN ReadString(At(R, type.off))
                         ELSE Res(OK, type.off, 0, <<>>))
      Skipped(h) ==
        IF h.err # OK THEN NotStarted(h.err, h.off)
        ELSE Opened(ReadTagType(At(R, h.off)))
  IN Skipped(SkipHeader(R, bedrockLevel))

ReadRoot ==
  /\ pc = "root"
  /\ LET Begin(f, d, s) ==
           /\ data' = d
           /\ byteOffset' = s.off
           /\ IF s.err # OK
                THEN /\ pc' = "throw"
                     /\ ret' = Thrown(s.err, f, s.off, Len(d))
                     /\ UNCHANGED <<frames, stack>>
              ELSE /\ frames' = SetTop([f EXCEPT !.rootNameNull = s.null,
                                                 !.rootNameV = s.name])
                   /\ IF s.tag.done
                        THEN /\ pc' = "finish"
                             /\ stack' = <<>>
                             /\ ret' = Outcome("pending", OK, s.tag.val,
                                               [f EXCEPT !.rootNameNull = s.null,
                                                         !.rootNameV = s.name],
                                               FALSE, s.off, Len(d))
                        ELSE /\ pc' = "decode"
                             /\ stack' = <<s.tag.frame>>
                             /\ ret' = NoOutcome
         Go(f, dec) ==
           IF dec.err # OK
             THEN /\ pc' = "throw"
                  /\ ret' = Thrown(dec.err, f, byteOffset, Len(data))
                  /\ UNCHANGED <<frames, data, byteOffset, stack>>
           ELSE Begin(f, dec.data,
                      RootStart(f.options, f.bedrockLevel,
                                Reader(dec.data, byteOffset, littleEndian, varint)))
     IN Go(TopFrame, Decompressed(data, TopFrame.compression))
  /\ UNCHANGED <<scenario, calls, cur, results, littleEndian, varint>>

Decode ==
  /\ pc = "decode"
  /\ LET Go(s) ==
           /\ byteOffset' = s.off
           /\ IF s.err # OK
                THEN /\ pc' = "throw"
                     /\ ret' = Thrown(s.err, TopFrame, s.off, Len(data))
                     /\ stack' = stack
              ELSE IF s.done
                THEN /\ pc' = "finish"
                     /\ ret' = Outcome("pending", OK, s.root, TopFrame, FALSE, s.off,
                                       Len(data))
                     /\ stack' = <<>>
              ELSE /\ pc' = "decode"
                   /\ ret' = NoOutcome
                   /\ stack' = s.stack
     IN Go(DecodeStep(Reader(data, byteOffset, littleEndian, varint), stack))
  /\ UNCHANGED <<scenario, calls, cur, results, frames, data, littleEndian, varint>>

\* the end of readRoot: the strict check and the result
Finish ==
  /\ pc = "finish"
  /\ IF Strict(TopFrame.options) /\ Len(data) > byteOffset
       THEN /\ pc' = "throw"
            /\ ret' = Thrown(UnexpectedEndTagError, TopFrame, byteOffset, Len(data))
       ELSE /\ pc' = "return"
            /\ ret' = Outcome("ok", OK, ret.root, TopFrame, ~Strict(TopFrame.options),
                              byteOffset, Len(data))
  /\ UNCHANGED <<scenario, calls, cur, results, frames, data, byteOffset,
                 littleEndian, varint, stack>>

(***************************************************************************)
(* Inputs: NBT streams of the three dialects, well formed and malformed    *)
(***************************************************************************)
\* COMPOUND named "", immediately closed
EmptyCompound == <<10, 0, 0, 0>>
\* COMPOUND "foo" { BYTE bar = 127 }
FooBar == <<10, 0, 3, 102, 111, 111, 1, 0, 3, 98, 97, 114, 127, 0>>
\* LIST "" of 3 BYTE
ByteList == <<9, 0, 0, 1, 0, 0, 0, 3, 1, 2, 3>>
\* COMPOUND { a = 5, b = 6, a = 7 }
DuplicateKeys == <<10, 0, 0, 1, 0, 1, 97, 5, 1, 0, 1, 98, 6, 1, 0, 1, 97, 7, 0>>
\* COMPOUND { b = 1, "1" = 2 }
IndexKeys == <<10, 0, 0, 1, 0, 1, 98, 1, 1, 0, 1, 49, 2, 0>>
\* COMPOUND { __proto__ = 5 }
ProtoName == <<10, 0, 0, 1, 0, 9, 95, 95, 112, 114, 111, 116, 111, 95, 95, 5, 0>>
\* LIST of END, length 0
EndListEmpty == <<9, 0, 0, 0, 0, 0, 0, 0>>
\* LIST of END, length 1
EndListOne == <<9, 0, 0, 0, 0, 0, 0, 1>>
\* COMPOUND { l = LIST of END, length 2 }
EndListNested == <<10, 0, 0, 9, 0, 1, 108, 0, 0, 0, 0, 2, 0>>
\* COMPOUND { l = LIST of END, length 0 }
EndListNestedEmpty == <<10, 0, 0, 9, 0, 1, 108, 0, 0, 0, 0, 0, 0>>
\* COMPOUND { "" = BYTE_ARRAY of length -7 }
NegByteArrayLoop == <<10, 0, 0, 7, 0, 0, 255, 255, 255, 249>>
\* COMPOUND { "" = BYTE_ARRAY of length -5 }
NegByteArrayBack == <<10, 0, 0, 7, 0, 0, 255, 255, 255, 251>>
\* COMPOUND { "" = BYTE_ARRAY of length -256 }
NegByteArrayFar == <<10, 0, 0, 7, 0, 0, 255, 255, 255, 0, 0>>
\* COMPOUND { "" = INT_ARRAY of length -1 }
NegIntArray == <<10, 0, 0, 11, 0, 0, 255, 255, 255, 255, 0>>
\* COMPOUND { "" = LONG_ARRAY of length -2^31 }
NegLongArray == <<10, 0, 0, 12, 0, 0, 128, 0, 0, 0, 0>>
\* LIST of 1 BYTE_ARRAY of length -256
NegByteArrayList == <<9, 0, 0, 7, 0, 0, 0, 1, 255, 255, 255, 0>>
\* COMPOUND { a = [B; 1, -1], b = [I; 7], c = [L; -2] }
Arrays == <<10, 0, 0, 7, 0, 1, 97, 0, 0, 0, 2, 1, 255, 11, 0, 1, 98, 0, 0, 0, 1, 0, 0, 0, 7, 12, 0, 1, 99, 0, 0, 0, 1, 255, 255, 255, 255, 255, 255, 255, 254, 0>>
\* COMPOUND { c = { i = 42 }, l = [{}, {}] }
Nested == <<10, 0, 0, 10, 0, 1, 99, 3, 0, 1, 105, 0, 0, 0, 42, 0, 9, 0, 1, 108, 10, 0, 0, 0, 2, 0, 0, 0>>
\* COMPOUND { s = -2s, l = 9L, f = 1.0f, d = NaN, t = "hi" }
Scalars == <<10, 0, 0, 2, 0, 1, 115, 255, 254, 4, 0, 1, 108, 0, 0, 0, 0, 0, 0, 0, 9, 5, 0, 1, 102, 63, 128, 0, 0, 6, 0, 1, 100, 127, 248, 0, 0, 0, 0, 0, 1, 8, 0, 1, 116, 0, 2, 104, 105, 0>>
\* LIST of 2 STRING
StringList == <<9, 0, 0, 8, 0, 0, 0, 2, 0, 1, 120, 0, 0>>
\* a BYTE at the root
ByteRoot == <<1, 0, 0, 5>>
\* an END at the root
EndRoot == <<0>>
\* kind 13 at the root
BadKind == <<13, 0, 0, 0>>
\* little-endian COMPOUND "foo" { INT bar = 42 }
LittleFooBar == <<10, 3, 0, 102, 111, 111, 3, 3, 0, 98, 97, 114, 42, 0, 0, 0, 0>>
\* level header (version 10, length 4), empty COMPOUND
LevelDat == <<10, 0, 0, 0, 4, 0, 0, 0, 10, 0, 0, 0>>
\* level header (version 0, length 4), empty COMPOUND
BedrockLevelV0 == <<0, 0, 0, 0, 4, 0, 0, 0, 10, 0, 0, 0>>
\* level header whose version bytes are the gzip magic
BedrockGzipMagic == <<31, 139, 0, 0, 4, 0, 0, 0, 10, 0, 0, 0>>
\* level header whose version byte is the zlib magic
BedrockZlibMagic == <<120, 0, 0, 0, 4, 0, 0, 0, 10, 0, 0, 0>>
\* varint COMPOUND "" { INT a = -3, LONG b = -2^63 }
VarintCompound == <<10, 0, 3, 1, 97, 5, 4, 1, 98, 255, 255, 255, 255, 255, 255, 255, 255, 255, 1, 0>>
\* varint COMPOUND whose name length is a 12-byte varint
VarintLongName == <<10, 128, 128, 128, 128, 128, 128, 128, 128, 128, 128, 128, 0, 0>>
\* varint COMPOUND { "" = STRING of length -1 }
VarintNegString == <<10, 0, 8, 0, 255, 255, 255, 255, 15>>
\* varint COMPOUND { "" = BYTE_ARRAY of length -3 }
VarintNegByteArray == <<10, 0, 7, 0, 5>>
\* varint COMPOUND { "" = INT_ARRAY of length -1 }
VarintNegIntArray == <<10, 0, 11, 0, 1, 0>>
\* varint COMPOUND { "" = INT of 11 bytes }
VarintTooLarge == <<10, 0, 3, 0, 128, 128, 128, 128, 128, 128, 128, 128, 128, 128, 0, 0>>
\* varint LIST of 2 INT
VarintList == <<9, 0, 3, 4, 2, 3>>

Streams ==
  {EmptyCompound, FooBar, ByteList, DuplicateKeys,
   IndexKeys, ProtoName, EndListEmpty, EndListOne,
   EndListNested, EndListNestedEmpty, NegByteArrayLoop, NegByteArrayBack,
   NegByteArrayFar, NegIntArray, NegLongArray, NegByteArrayList,
   Arrays, Nested, Scalars, StringList,
   ByteRoot, EndRoot, BadKind, LittleFooBar,
   LevelDat, BedrockLevelV0, BedrockGzipMagic, BedrockZlibMagic,
   VarintCompound, VarintLongName, VarintNegString, VarintNegByteArray,
   VarintNegIntArray, VarintTooLarge, VarintList}

\* the same streams behind each compression wrapper
Wrapped ==
  {Gzip(x, m) : x \in {EmptyCompound, LevelDat, ByteRoot}, m \in 0..MaxMtime}
    \cup {Zlib(x) : x \in {EmptyCompound, ByteRoot}}
    \cup {Deflate(x) : x \in {EmptyCompound, ByteRoot}}

TrailBytes == {0, 10}

RECURSIVE Trails(_)
Trails(n) ==
  IF n = 0 THEN {<<>>}
  ELSE Trails(n - 1) \cup {Append(t, b) : t \in Trails(n - 1), b \in TrailBytes}

Prefixes(v) == {SubSeq(v, 1, k) : k \in 0..Len(v)}

\* every stream, cut short anywhere or followed by trailing bytes
Inputs ==
  UNION {Prefixes(v) : v \in Streams}
    \cup {v \o t : v \in Streams \cup Wrapped, t \in Trails(MaxTrailing)}

Endians == {"big", "little", "little-varint"}

\* hints: all omitted, all given, a compression scheme alone, the level
\* header forced, and a root name that is null or an exact string
Hints ==
  {Options("undefined", <<>>, "undefined", "undefined", "undefined", s) :
     s \in {"undefined", "false"}}
  \cup {Options(rn, <<>>, e, "null", "undefined", s) :
          rn \in {"true", "false"}, e \in Endians, s \in {"undefined", "false"}}
  \cup {Options("undefined", <<>>, "undefined", c, "undefined", "undefined") :
          c \in {"gzip", "deflate", "deflate-raw"}}
  \cup {Options("true", <<>>, "little", "null", b, "true") : b \in {"true", "false"}}
  \cup {Options("undefined", <<>>, "undefined", "undefined", "true", "undefined")}
  \cup {Options(rn, str, "big", "null", "undefined", "true") :
          rn \in {"null", "string"}, str \in {<<>>, <<102, 111, 111>>}}

TypeOK ==
  /\ pc \in {"idle", "read", "root", "decode", "finish", "throw", "return",
             "varint", "readVarInt", "readVarIntZigZag", "readVarLongZigZag"}
  /\ cur \in 1..(Len(calls) + 1)
  /\ Len(results) = cur - 1

Start(name, cs) ==
  /\ scenario = name
  /\ calls = cs
  /\ cur = 1
  /\ results = <<>>
  /\ frames = <<>>
  /\ pc = "idle"
  /\ data = <<>>
  /\ byteOffset = 0
  /\ littleEndian = FALSE
  /\ varint = FALSE
  /\ stack = <<>>
  /\ ret = NoOutcome

CallOf(d, o) == [data |-> d, options |-> o]

\* one call of read() on any input with any hints
Init == \E d \in Inputs, o \in Hints : Start("read", <<CallOf(d, o)>>)

Next == Call \/ Read \/ Catch \/ Settle \/ ReadRoot \/ Decode \/ Finish

Spec == Init /\ [][Next]_vars

(***************************************************************************)
(* One hint axis at a time: the call that omits the axis, followed by the  *)
(* calls that give each of its values, the other hints being the same      *)
(***************************************************************************)
Axes == {"compression", "endian", "rootName"}

\* the values a caller can give on an axis
Explicit(axis) ==
  CASE axis = "compression" -> <<"null", "gzip", "deflate", "deflate-raw">>
    [] axis = "endian" -> EndianCandidates
    [] axis = "rootName" -> RootNameCandidates

AxisCalls(d, o, axis) ==
  <<CallOf(d, WithCandidate(o, axis, "undefined"))>>
    \o [i \in 1..Len(Explicit(axis)) |-> CallOf(d, WithCandidate(o, axis, Explicit(axis)[i]))]

AxisInputs ==
  {<<>>, EndRoot, ByteRoot, EmptyCompound, FooBar, LittleFooBar, VarintList,
   ByteList, LevelDat, BedrockGzipMagic, BedrockZlibMagic,
   Gzip(EmptyCompound, 0), Zlib(EmptyCompound), Deflate(EmptyCompound)}

AxisHints ==
  {Options(rn, <<>>, e, c, b, "undefined") :
     rn \in {"true", "false"}, e \in {"big", "little"}, c \in {"null", "gzip"},
     b \in {"undefined", "false"}}
  \cup {NoOptions}

InitAxis ==
  \E d \in AxisInputs, o \in AxisHints, axis \in Axes : Start(axis, AxisCalls(d, o, axis))

SpecAxis == InitAxis /\ [][Next]_vars

(***************************************************************************)
(* A buffer without compression magic read with the framing hints omitted, *)
(* then with each combination of compression, endian and root name given   *)
(***************************************************************************)
\* neither hasGzipHeader() nor hasZlibHeader() can say yes
NoMagic(d) ==
  /\ ~(Len(d) >= 2 /\ d[1] = GzipMagic1 /\ d[2] = GzipMagic2)
  /\ ~(Len(d) >= 1 /\ d[1] = ZlibMagic)

OrderInputs ==
  {d \in Inputs \cup {Deflate(x) : x \in {FooBar, LittleFooBar, VarintList, EndRoot}} :
     NoMagic(d)}

\* compression outermost, endian inside it, root name innermost
Combination(i, strict) ==
  Options(<<"true", "false">>[((i - 1) % 2) + 1], <<>>,
          <<"big", "little", "little-varint">>[(((i - 1) \div 2) % 3) + 1],
          <<"null", "deflate-raw">>[((i - 1) \div 6) + 1], "undefined", strict)

Combinations == 2 * 3 * 2

OrderCalls(d, strict) ==
  <<CallOf(d, [NoOptions EXCEPT !.strict = strict])>>
    \o [i \in 1..Combinations |-> CallOf(d, Combination(i, strict))]

InitOrder ==
  \E d \in OrderInputs, s \in {"undefined", "false"} : Start("order", OrderCalls(d, s))

SpecOrder == InitOrder /\ [][Next]_vars

(***************************************************************************)
(* A buffer read directly, then read behind a gzip wrapper                 *)
(***************************************************************************)
GzipInputs ==
  {<<>>, EndRoot, ByteRoot, EmptyCompound, FooBar, LittleFooBar, VarintList,
   ByteList, DuplicateKeys, Nested, LevelDat, BedrockLevelV0, EndListOne,
   EmptyCompound \o <<0>>}

GzipHints ==
  {Options(rn, <<>>, e, "null", b, s) :
     rn \in {"undefined", "true", "false"}, e \in {"undefined"} \cup Endians,
     b \in {"undefined", "true", "false"}, s \in {"undefined", "false"}}

GzipCalls(X, mtime, o) ==
  <<CallOf(X, [o EXCEPT !.compression = "null"]),
    CallOf(Gzip(X, mtime), [o EXCEPT !.compression = "undefined"])>>

InitGzip ==
  \E X \in GzipInputs, m \in 0..MaxMtime, o \in GzipHints : Start("gzip", GzipCalls(X, m, o))

SpecGzip == InitGzip /\ [][Next]_vars

(***************************************************************************)
(* The three varint reads of the cursor, each applied to a buffer that     *)
(* holds one varint                                                        *)
(***************************************************************************)
RECURSIVE Run(_, _)
Run(b, k) == IF k = 0 THEN <<>> ELSE <<b>> \o Run(b, k - 1)

\* the two's-complement bits of an int32
FromInt32(x) ==
  [i \in 1..IntW |-> IF i = IntW THEN (IF x < 0 THEN 1 ELSE 0) ELSE (x \div Pow2(i - 1)) % 2]

SignExtend(v, w) == [i \in 1..w |-> IF i <= Len(v) THEN v[i] ELSE v[Len(v)]]

\* ZigZag encoding of a signed integer given by its bits: (x << 1) ^ (x >> w-1)
ZigZagEncode(x) ==
  [i \in 1..Len(x) |-> IF i = 1 THEN x[Len(x)] ELSE (x[i - 1] + x[Len(x)]) % 2]

\* the 7-bit group g (from 0) of an unsigned integer given by its bits
Group(n, g) ==
  LET Bit(j) == IF j <= Len(n) THEN n[j] ELSE 0
      Base == ShiftStep * g
  IN Bit(Base + 1) + 2 * Bit(Base + 2) + 4 * Bit(Base + 3) + 8 * Bit(Base + 4)
       + 16 * Bit(Base + 5) + 32 * Bit(Base + 6) + 64 * Bit(Base + 7)

\* the shortest varint of an unsigned integer given by its bits
VarintOf(n) ==
  LET used == {i \in 1..Len(n) : n[i] = 1}
      top == IF used = {} THEN 1 ELSE CHOOSE i \in used : \A j \in used : j <= i
      count == ((top - 1) \div ShiftStep) + 1
  IN [g \in 1..count |-> Group(n, g - 1) + (IF g < count THEN ContinueBit ELSE 0)]

SampleInts32 ==
  {0, 1, -1, 2, -2, 63, -64, 64, -65, 8191, -8192, 1048576, -1048577, 134217727,
   134217728, -134217729, 1073741824, 2147483647, -2147483647 - 1}

Samples32 == {FromInt32(x) : x \in SampleInts32}

OneHot(k, w) == [i \in 1..w |-> IF i = k + 1 THEN 1 ELSE 0]
Complement(v) == [i \in 1..Len(v) |-> 1 - v[i]]

Samples64 ==
  {Zero(64), Ones(64)}
    \cup {OneHot(k, 64) : k \in {0, 5, 6, 7, 31, 32, 62, 63}}
    \cup {Complement(OneHot(k, 64)) : k \in {0, 5, 6, 7, 31, 32, 62, 63}}

\* varints: runs of continuation bytes with and without a last byte, and
\* the ZigZag encodings of the sample integers
VarintInputs ==
  {Run(c, k) \o <<t>> : c \in {128, 129, 255}, k \in 0..(MaxVarBytes - 1),
                       t \in {0, 1, 15, 127}}
    \cup {Run(c, k) : c \in {128, 255}, k \in 0..MaxVarBytes}
    \cup {VarintOf(ZigZagEncode(x)) : x \in Samples32 \cup Samples64}

InitVarint ==
  \E bs \in VarintInputs :
    /\ scenario = "varint"
    /\ calls = <<CallOf(bs, NoOptions)>>
    /\ cur = 1
    /\ results = <<>>
    /\ frames = <<>>
    /\ pc = "varint"
    /\ data = bs
    /\ byteOffset = 0
    /\ littleEndian = TRUE
    /\ varint = TRUE
    /\ stack = <<>>
    /\ ret = NoOutcome

\* the cursor's varint reads; ret holds what the read returned
CallReadVarInt ==
  /\ pc = "varint"
  /\ pc' = "readVarInt"
  /\ LET Go(r) == ret' = r /\ byteOffset' = r.off
     IN Go(ReadVarInt(Reader(data, byteOffset, littleEndian, varint)))
  /\ UNCHANGED <<scenario, calls, cur, results, frames, data, littleEndian, varint, stack>>

CallReadVarIntZigZag ==
  /\ pc = "varint"
  /\ pc' = "readVarIntZigZag"
  /\ LET Go(r) == ret' = r /\ byteOffset' = r.off
     IN Go(ReadVarIntZigZag(Reader(data, byteOffset, littleEndian, varint)))
  /\ UNCHANGED <<scenario, calls, cur, results, frames, data, littleEndian, varint, stack>>

CallReadVarLongZigZag ==
  /\ pc = "varint"
  /\ pc' = "readVarLongZigZag"
  /\ LET Go(r) == ret' = r /\ byteOffset' = r.off
     IN Go(ReadVarLongZigZag(Reader(data, byteOffset, littleEndian, varint)))
  /\ UNCHANGED <<scenario, calls, cur, results, frames, data, littleEndian, varint, stack>>

NextVarint == CallReadVarInt \/ CallReadVarIntZigZag \/ CallReadVarLongZigZag

SpecVarint == InitVarint /\ [][NextVarint]_vars

(***************************************************************************)
(* Properties                                                              *)
(***************************************************************************)
\* every call of the scenario has ended
AllSettled == cur > Len(calls)
Succeeded(i) == results[i].status = "ok"

\* the resolved value a result reports on an axis
Resolved(r, axis) ==
  CASE axis = "compression" -> r.compression
    [] axis = "endian" -> r.endian
    [] axis = "rootName" -> IF r.rootNameNull THEN "false" ELSE "true"

\* C1: on each hint axis, the other hints being the same, the call that
\* omits the axis succeeds if and only if the call giving at least one value
\* of that axis succeeds, and then it reports the value of a call that
\* succeeded as the resolved framing.
C1_AxisOmittedIffCandidate ==
  (scenario \in Axes /\ AllSettled) =>
    /\ Succeeded(1) <=> \E i \in 2..Len(calls) : Succeeded(i)
    /\ Succeeded(1) =>
         \E i \in 2..Len(calls) :
           /\ Succeeded(i)
           /\ Resolved(results[1], scenario) = Resolved(results[i], scenario)

\* C2: a successful strict read ends with the cursor at the length of the
\* decoded buffer, and a successful non-strict read reports a byte offset
\* between 0 and that length.
C2_FinalOffset ==
  pc = "return" =>
    IF Strict(ret.hint) THEN ret.offset = ret.length
    ELSE ret.hasByteOffset /\ ret.byteOffset \in 0..ret.length

\* C3: reading gzip(X) with the compression hint omitted succeeds exactly
\* when reading X with compression none succeeds, and then yields the same
\* tree, root name, endian and bedrockLevel, with compression gzip.
C3_GzipTransparent ==
  (scenario = "gzip" /\ AllSettled) =>
    /\ Succeeded(2) <=> Succeeded(1)
    /\ Succeeded(1) =>
         /\ results[2].root = results[1].root
         /\ results[2].rootNameNull = results[1].rootNameNull
         /\ results[2].rootName = results[1].rootName
         /\ results[2].endian = results[1].endian
         /\ results[2].bedrockLevel = results[1].bedrockLevel
         /\ results[2].compression = "gzip"

ArrayKinds == {TAG_BYTE_ARRAY, TAG_INT_ARRAY, TAG_LONG_ARRAY}
NoLength == Res("no array", 0, 0, <<>>)

\* the length prefix of the array tag the next decoder step reads, when it
\* reads one: the entry of a compound after its kind and name, or the
\* element of a list of arrays
ArrayLengthAt(R, stk) ==
  LET Named(name) == IF name.err # OK THEN NoLength ELSE ReadLength(At(R, name.off))
      Typed(type) == IF type.err # OK \/ type.n \notin ArrayKinds THEN NoLength
                     ELSE Named(ReadString(At(R, type.off)))
  IN IF Top(stk).kind = "compound" THEN Typed(ReadTagType(R))
     ELSE IF Top(stk).type \in ArrayKinds THEN ReadLength(R)
     ELSE NoLength

NegativeArrayLength ==
  /\ pc = "decode"
  /\ LET Go(length) == length.err = OK /\ length.n < 0
     IN Go(ArrayLengthAt(Reader(data, byteOffset, littleEndian, varint), stack))

\* C4: a step that reads a BYTE_ARRAY, INT_ARRAY or LONG_ARRAY whose length
\* prefix is negative throws the invalid-tag error and does not move the
\* cursor backwards.
C4_NegativeLengthRejected ==
  [][NegativeArrayLength =>
       (pc' = "throw" /\ ret'.error = InvalidTagError /\ byteOffset' >= byteOffset)]_vars

\* the hints that leave the framing to read()
FramingOmitted(o) ==
  /\ o.rootName = "undefined"
  /\ o.endian = "undefined"
  /\ o.compression = "undefined"
  /\ o.bedrockLevel = "undefined"

\* C5: a successful read returns a root opened by a LIST or COMPOUND kind
\* byte, and with the framing hints omitted an input whose first byte is
\* another valid kind fails with the invalid-opening-tag error.
C5_OpeningTag ==
  /\ pc = "return" =>
       data[(IF ret.bedrockLevel THEN BedrockHeaderLength ELSE 0) + 1]
         \in {TAG_LIST, TAG_COMPOUND}
  /\ (scenario = "read" /\ AllSettled /\ FramingOmitted(calls[1].options)
        /\ calls[1].data # <<>>
        /\ calls[1].data[1] \in (TAG_END..TAG_LONG_ARRAY) \ {TAG_LIST, TAG_COMPOUND})
       => results[1].error = InvalidOpeningTagError

\* C6: read() of the empty input fails with the unexpected-buffer-end error
\* whenever no decompression is asked for, the hints being omitted or given.
C6_EmptyInput ==
  (scenario = "read" /\ AllSettled /\ calls[1].data = <<>>
     /\ calls[1].options.compression \in {"undefined", "null"})
    => (results[1].status = "error" /\ results[1].error = UnexpectedBufferEndError)

EmptyArray == Val("Array", 0, <<>>, <<>>)
NoList == [found |-> FALSE, name |-> <<>>, length |-> NoLength]

\* the length prefix of a LIST payload that starts at offset p with the
\* element kind END
ListOfEnd(R, p, name) ==
  IF p >= 0 /\ p < Len(R.data) /\ R.data[p + 1] = TAG_END
    THEN [found |-> TRUE, name |-> name, length |-> ReadLength(At(R, p + 1))]
    ELSE NoList

\* the LIST of END that readRoot opens on the buffer d, if it opens one
RootListOfEnd(R, o) ==
  LET Named(name) ==
        IF name.err # OK \/ (o.rootName = "string" /\ name.b # o.rootNameStr) THEN NoList
        ELSE ListOfEnd(R, name.off, name.b)
  IN IF R.off >= Len(R.data) \/ R.data[R.off + 1] # TAG_LIST THEN NoList
     ELSE IF o.rootName \in {"string", "true"} THEN Named(ReadString(At(R, R.off + 1)))
     ELSE ListOfEnd(R, R.off + 1, <<>>)

\* the LIST of END that the next step of the decoder reads, if it reads one:
\* an entry of the open compound or an element of the open list of lists
ChildListOfEnd(R, stk) ==
  LET Named(name) == IF name.err # OK THEN NoList ELSE ListOfEnd(R, name.off, name.b)
  IN IF Top(stk).kind = "compound"
       THEN IF R.off >= 0 /\ R.off < Len(R.data) /\ R.data[R.off + 1] = TAG_LIST
              THEN Named(ReadString(At(R, R.off + 1))) ELSE NoList
     ELSE IF Top(stk).type = TAG_LIST THEN ListOfEnd(R, R.off, <<>>)
     ELSE NoList

\* a LIST of END with a length prefix is read by this step
ListOfEndHere(d) ==
  IF pc = "decode" THEN ChildListOfEnd(Reader(d, byteOffset, littleEndian, varint), stack)
  ELSE IF pc = "root" /\ TopFrame.compression = "null"
    THEN RootListOfEnd(Reader(d, (IF TopFrame.bedrockLevel THEN BedrockHeaderLength ELSE 0),
                              littleEndian, varint),
                       TopFrame.options)
  ELSE NoList

ValueAt(value, name) == value[CHOOSE i \in 1..Len(value) : value[i].k = name].v

\* the step that reads a LIST of END of length 0 reads it whole, as the
\* empty sequence
EmptyListOfEnd(l) ==
  (l.found /\ l.length.err = OK /\ l.length.n = 0) =>
    /\ byteOffset' = l.length.off
    /\ pc = "root" => (pc' = "finish" /\ ret'.root = EmptyArray)
    /\ pc = "decode" =>
         /\ pc' \in {"decode", "finish"}
         /\ Len(stack') <= Len(stack)
         /\ (Top(stack).kind = "compound" /\ HasKey(Top(stack').value, l.name))
              => ValueAt(Top(stack').value, l.name) = EmptyArray

\* the step that reads a LIST of END of length >= 1 enters its element loop
OpenListOfEnd(l) ==
  (l.found /\ l.length.err = OK /\ l.length.n >= 1) =>
    /\ pc' = "decode"
    /\ Top(stack') = Frame("list", TAG_END, l.length.n)

\* the element loop of a LIST of END fails at its first element
InListOfEnd == pc = "decode" /\ Top(stack).kind = "list" /\ Top(stack).type = TAG_END

\* what a step does with a LIST of END, failing with the given error
ListOfEndStep(error) ==
  /\ (pc \in {"root", "decode"}) =>
       (EmptyListOfEnd(ListOfEndHere(data')) /\ OpenListOfEnd(ListOfEndHere(data')))
  /\ InListOfEnd => (pc' = "throw" /\ ret'.error = error)

Keys(value) == [i \in 1..Len(value) |-> value[i].k]

\* this step of the decoder assigns an entry to the compound that is open
\* after it
Assigned ==
  /\ pc = "decode"
  /\ pc' = "decode"
  /\ Len(stack') <= Len(stack)
  /\ Top(stack').kind = "compound"

\* this step reads a BYTE entry of the open compound
ByteEntry ==
  /\ Len(stack') = Len(stack)
  /\ byteOffset >= 0
  /\ data[byteOffset + 1] = TAG_BYTE

\* C8: every entry read into a compound leaves its name among the keys
\* exactly once, a new name after every earlier key and a repeated name where
\* it was, and the name maps to the value read last.
C8_KeyOrder ==
  [][Assigned =>
       LET old == Keys(stack[Len(stack')].value)
           new == Top(stack').value
           name == Top(stack').name
       IN /\ Keys(new) = IF \E i \in 1..Len(old) : old[i] = name THEN old
                         ELSE Append(old, name)
          /\ ByteEntry => ValueAt(new, name) = Number(Signed8(<<data[byteOffset']>>))]_vars

VarintReads == {"readVarInt", "readVarIntZigZag", "readVarLongZigZag"}

\* bit j (from 0) of the unsigned integer that varint bytes spell
NBit(bs, j) ==
  IF j \div ShiftStep < Len(bs)
    THEN ((bs[(j \div ShiftStep) + 1] % ContinueBit) \div Pow2(j % ShiftStep)) % 2
    ELSE 0

\* the unsigned integer is below 2^width
Below(bs, width) == \A j \in width..(ShiftStep * Len(bs)) : NBit(bs, j) = 0

\* (n >> 1) XOR -(n AND 1) with a logical shift of a width-bit n, on w bits
StdZigZag(bs, width, w) ==
  [i \in 1..w |-> ((IF i < width THEN NBit(bs, i) ELSE 0) + NBit(bs, 0)) % 2]

\* C9: a ZigZag varint read that returns gives the standard ZigZag decoding
\* (n >> 1) XOR -(n AND 1) of the unsigned n its bytes spell, the 32-bit read
\* for n below 2^32 and the 64-bit read for n below 2^64, and the ZigZag
\* encoding of a signed integer of the width reads back as that integer.
C9_ZigZagDecoding ==
  /\ (pc = "readVarIntZigZag" /\ ret.err = OK /\ Below(data, IntW))
       => (ret.b = StdZigZag(data, IntW, IntW) /\ ret.n = ToInt32(StdZigZag(data, IntW, IntW)))
  /\ (pc = "readVarLongZigZag" /\ ret.err = OK /\ Below(data, 2 * IntW))
       => ret.b = StdZigZag(data, 2 * IntW, BigW)
  /\ pc = "readVarIntZigZag" =>
       \A x \in SampleInts32 :
         data = VarintOf(ZigZagEncode(FromInt32(x))) => (ret.err = OK /\ ret.n = x)
  /\ pc = "readVarLongZigZag" =>
       \A x \in Samples64 :
         data = VarintOf(ZigZagEncode(x)) => (ret.err = OK /\ ret.b = SignExtend(x, BigW))

\* the 32-bit read has returned the decoding of an n with bit 31 set
C9_Witness ==
  /\ pc = "readVarIntZigZag"
  /\ ret.err = OK
  /\ Below(data, IntW)
  /\ NBit(data, IntW - 1) = 1
  /\ NBit(data, 0) = 1

\* the bytes of the longest varint whose shift stays within 63 bits
VarintLimit == (MaxShift \div ShiftStep) + 1

\* C10: no varint read consumes more than 10 bytes, and each of the three
\* fails with the varnum-too-large error when the first 10 bytes all have
\* the high bit set.
C10_VarintLimit ==
  pc \in VarintReads =>
    /\ byteOffset <= VarintLimit
    /\ (Len(data) >= VarintLimit /\ \A i \in 1..VarintLimit : data[i] >= ContinueBit)
         => ret.err = VarNumTooLargeError

\* the calls of the scenario after the first that succeeded
Successes == {i \in 2..Len(calls) : Succeeded(i)}
First(S) == CHOOSE i \in S : \A j \in S : i <= j

SameResult(a, b) ==
  /\ a.status = b.status
  /\ a.root = b.root
  /\ a.rootNameNull = b.rootNameNull
  /\ a.rootName = b.rootName
  /\ a.endian = b.endian
  /\ a.compression = b.compression
  /\ a.bedrockLevel = b.bedrockLevel
  /\ a.byteOffset = b.byteOffset

\* C11: with the framing hints omitted and no gzip or zlib magic in the
\* input, read() returns the result of the first combination, in the order
\* compression (none, raw-deflate), endian (big, little, little-varint),
\* root name (true, false), that succeeds when given as hints, and when no
\* combination succeeds it throws the error of the first one (none, big,
\* true).
C11_TrialOrder ==
  (scenario = "order" /\ AllSettled) =>
    IF Successes # {} THEN SameResult(results[1], results[First(Successes)])
    ELSE results[1].status = "error" /\ results[1].error = results[2].error

\* the loop iteration the decoder runs next
Iteration == DecodeStep(Reader(data, byteOffset, littleEndian, varint), stack)

\* the iteration returned from the tag it read, or closed its compound,
\* rather than opening a nested list or compound
ReadWhole(s) == s.err = OK /\ Len(s.stack) <= Len(stack)

\* the iteration leaves the decoder where it was: the loop reads the same
\* bytes again, forever
Repeats(s) == s.err = OK /\ ~s.done /\ s.off = byteOffset /\ s.stack = stack

\* C12: the grammar decoder terminates on every input under every hint
\* combination: no loop iteration of a COMPOUND or LIST moves the cursor
\* backwards, every iteration that reads a whole tag moves it forwards, and
\* so no iteration brings the decoder back to the state it started from.
C12_DecoderTerminates ==
  pc = "decode" =>
    LET Go(s) == /\ s.off >= byteOffset
                 /\ ReadWhole(s) => s.off > byteOffset
                 /\ ~Repeats(s)
    IN Go(Iteration)

====
